---- MODULE Spec2Model ----
(***************************************************************************)
(* Backward reachability over quantized inputs (backreach.py).             *)
(*                                                                         *)
(* A task (backreach_single) builds an initial State from a scenario       *)
(* tuple, and runs a depth-first search: pop a state, compute its          *)
(* predecessors (State.get_predecessors), push them, and stop at the first *)
(* predecessor that satisfies the counterexample test.                     *)
(*                                                                         *)
(* The geometry (star.py), the dynamics (dubins.py), the decision function *)
(* (networks.py), the quantization settings (settings.py, util.py) and the *)
(* task allocator (parallel.py) are collaborators whose code is not part   *)
(* of backreach.py; they are modelled from their interface: a polytope is  *)
(* a finite set of grid points of the domain together with the affine map  *)
(* (here a translation) that takes a domain point to concrete coordinates. *)
(***************************************************************************)
EXTENDS Integers, Sequences, FiniteSets, TLC

(* ------------------------------ bounds -------------------------------- *)

\* a task stops being explored once it has popped this many states
MaxPopped == 6

\* number of calls of backreach_single in one behaviour
NumTasks == 2

(* ------------------------- program constants -------------------------- *)

\* `for prev_cmd in range(5)`
NumCmds == 5

\* `dx**2 + dy**2 > 10000**2`
SafetyRadius == 10000

(* --------------------- quantization configuration --------------------- *)

\* Quanta.pos: the position quantum
Pos == 5000

\* spacing of the grid points a polytope is made of
GridStep == 2500

\* Quanta.cmd_quantum_list: heading quantum delta per command
\* (clear, weak left, weak right, strong left, strong right)
cmd_quantum_list == <<0, 1, -1, 2, -2>>

\* Optional values: None is the empty sequence, a present value v is <<v>>
None == <<>>

Some(v) == <<v>>

VARIABLES
    mode,           \* "seq": the calls run one after the other in one process
                    \* (parallel=False); "par": one worker process per call
    scenarios,      \* the scenario tuples handed out to the calls
    net,            \* the decision function in use (parameters of get_cmd)
    init_cells,     \* the cells for which is_init_qx_qy holds
    lp_rule,        \* which feasible point the LP returns as the witness
    pc,             \* per task: position in backreach_single
    index,          \* per task: local `index`
    params,         \* per task: local `params`
    work,           \* per task: local `work` (the frontier, a list)
    popped,         \* per task: local `popped`
    rv,             \* per task: local `rv`
    deadends,       \* per task: local `deadends`
    s,              \* per task: local `s`, the state popped last
    predecessors,   \* per task: local `predecessors`
    pi,             \* per task: position of the for loop in `predecessors`
    result,         \* per task: the value returned (None until it returns)
    next_state_id,  \* per process: State.next_state_id
    shared_index,   \* parallel.py: the task-index counter
    shared_num_counterexamples, \* parallel.py: the shared counter's value
    lock,           \* holder of shared_num_counterexamples.get_lock(), 0 if free
    tmp,            \* per task: the value read by `value += 1`
    notified,       \* indices passed to worker_had_counterexample
    produced,       \* history: per task, every predecessor get_predecessors returned
    log             \* history: per task, the pushes and pops in order

vars == <<mode, scenarios, net, init_cells, lp_rule, pc, index, params, work,
          popped, rv, deadends, s, predecessors, pi, result, next_state_id,
          shared_index, shared_num_counterexamples, lock, tmp, notified,
          produced, log>>

Tasks == 1..NumTasks

Cmds == 0..(NumCmds - 1)

(* ------------------------------ geometry ------------------------------ *)

\* a point: own position and intruder x position (intruder y is always 0)
Pt(xo, yo, xi) == [x_own |-> xo, y_own |-> yo, x_int |-> xi]

AddPt(p, q) == Pt(p.x_own + q.x_own, p.y_own + q.y_own, p.x_int + q.x_int)

ScalePt(k, p) == Pt(k * p.x_own, k * p.y_own, k * p.x_int)

\* own-to-intruder displacement of a concrete point
DxOf(pt) == pt.x_int - pt.x_own

DyOf(pt) == 0 - pt.y_own

\* floor and ceil of a / b for b > 0
Floor(a, b) == a \div b

Ceil(a, b) == 0 - ((0 - a) \div b)

\* Star.domain_to_range: concrete coordinates of a domain point
domain_to_range(star, domain_pt) == AddPt(domain_pt, star.b_vec)

\* the concrete points of a star
RangePts(star) == {domain_to_range(star, d) : d \in star.dom}

\* lexicographic order on points
PtLess(p, q) ==
    \/ p.x_own < q.x_own
    \/ p.x_own = q.x_own /\ p.y_own < q.y_own
    \/ p.x_own = q.x_own /\ p.y_own = q.y_own /\ p.x_int < q.x_int

\* Star.is_feasible: a witness (domain point) of the star, or None
is_feasible(star) ==
    IF star.dom = {} THEN None
    ELSE IF lp_rule = "lo"
         THEN Some(CHOOSE d \in star.dom : \A e \in star.dom : e = d \/ PtLess(d, e))
         ELSE Some(CHOOSE d \in star.dom : \A e \in star.dom : e = d \/ PtLess(e, d))

SetMin(S) == CHOOSE x \in S : \A y \in S : x <= y

SetMax(S) == CHOOSE x \in S : \A y \in S : x >= y

\* the quantized cell of a concrete point
CellOf(pt) == <<Floor(DxOf(pt), Pos), Floor(DyOf(pt), Pos)>>

\* util.make_qstar: the star restricted to one quantized cell
make_qstar(star, qstate) ==
    [star EXCEPT !.dom = {d \in star.dom : CellOf(domain_to_range(star, d)) = qstate}]

\* dubins.init_to_constraints: the initial box of a scenario; own position
\* lies in the given quantized intervals, the intruder at the origin
init_to_constraints(x_own, y_own, v_own, v_int, theta1) ==
    {Pt(GridStep * i, GridStep * j, 0) :
        i \in ((x_own[1] * Pos) \div GridStep)..((x_own[2] * Pos) \div GridStep),
        j \in ((y_own[1] * Pos) \div GridStep)..((y_own[2] * Pos) \div GridStep)}

\* Star(box, a_mat, b_vec)
Star(box) == [dom |-> box, b_vec |-> Pt(0, 0, 0)]

\* one-second displacement under each command (own x, own y, intruder x)
Displacement ==
    <<Pt(GridStep, 0, 0 - GridStep),
      Pt(GridStep, GridStep, 0 - GridStep),
      Pt(GridStep, 0 - GridStep, 0 - GridStep),
      Pt(0, GridStep, 0 - GridStep),
      Pt(0, 0 - GridStep, 0 - GridStep)>>

\* dubins.get_time_elapse_mat(cmd, dt), as the translation it applies
get_time_elapse_mat(cmd, dt) == ScalePt(dt, Displacement[cmd + 1])

(* ------------------------ external predicates ------------------------- *)

\* util.is_init_qx_qy
is_init_qx_qy(qdx, qdy) == <<qdx, qdy>> \in init_cells

\* networks.get_cmd: the advisory issued in a quantized state after prev_cmd
get_cmd(prev_cmd, qdx, qdy, qtheta1, qv_own, qv_int) ==
    IF net.kind = "const" THEN net.far
    ELSE IF net.kind = "dx" THEN (IF qdx >= net.thr THEN net.far ELSE net.near)
    ELSE IF net.kind = "dy" THEN (IF qdy >= net.thr THEN net.far ELSE net.near)
    ELSE IF net.kind = "prev"
         THEN (IF prev_cmd = net.near THEN net.far
               ELSE IF qdx >= net.thr THEN net.far ELSE net.near)
    ELSE IF net.kind = "theta"
         THEN (IF qdx < net.thr THEN net.near
               ELSE IF qtheta1 >= 0 THEN net.far ELSE 2)
    ELSE IF net.kind = "hyst"
         THEN (IF prev_cmd = net.near THEN net.far
               ELSE IF prev_cmd = 2 THEN 2
               ELSE IF qdx >= net.thr THEN net.far ELSE net.near)
    ELSE (IF qv_own < qv_int /\ prev_cmd = net.near THEN net.far ELSE net.near)

(* ------------------------------ class State --------------------------- *)

Last(seq) == seq[Len(seq)]

\* State.__init__ (the id is assigned from State.next_state_id, here `id`)
NewState(alpha_prev, qtheta1, qv_own, qv_int, star, id) ==
    [state_id |-> id,
     alpha_prev_list |-> <<alpha_prev>>,
     qtheta1 |-> qtheta1,
     qv_own |-> qv_own,
     qv_int |-> qv_int,
     star |-> star,
     domain_witness |-> is_feasible(star)]

\* `assert self.domain_witness is not None` of State.__init__
InitAssertOk(star) == is_feasible(star) # None

\* State.copy without arguments: a deep copy with a new id
copy(self, id) == [self EXCEPT !.state_id = id]

\* the copy that keeps the source's witness
copy_with_OldWitness(self, new_star, new_domain_witness, id) ==
    [self EXCEPT !.state_id = id, !.star = new_star]

\* State.copy(new_star, new_domain_witness)
copy_with(self, new_star, new_domain_witness, id) ==
    [self EXCEPT !.state_id = id,
                 !.star = new_star,
                 !.domain_witness = new_domain_witness]

\* State.copy leaving the source without its star
copy_source_NoRestore(self, with_new_star) ==
    IF with_new_star THEN [self EXCEPT !.star = None] ELSE self

\* State.copy, its effect on the source: deepcopy changes nothing of it;
\* when a replacement star is given, self.star is set aside (lines 62-63)
\* and put back (line 73)
copy_source(self, with_new_star) ==
    IF with_new_star
    THEN LET self_star == self.star
         IN  [[self EXCEPT !.star = None] EXCEPT !.star = self_star]
    ELSE self

\* `assert 0 <= cmd <= 4` of State.backstep
BackstepAssertOk(cmd) == 0 <= cmd /\ cmd <= 4

\* the step with the heading level moved the wrong way
backstep_HeadingForward(self, forward, forward_alpha_prev) ==
    LET cmd == IF forward THEN forward_alpha_prev ELSE Last(self.alpha_prev_list)
        mat == get_time_elapse_mat(cmd, IF forward THEN 1 ELSE 0 - 1)
    IN  [self EXCEPT !.star.b_vec = AddPt(mat, self.star.b_vec),
                     !.qtheta1 = self.qtheta1 + cmd_quantum_list[cmd + 1]]

\* State.backstep: the state one step back (or forward, for the replay)
backstep(self, forward, forward_alpha_prev) ==
    LET cmd == IF forward THEN forward_alpha_prev ELSE Last(self.alpha_prev_list)
        mat == get_time_elapse_mat(cmd, IF forward THEN 1 ELSE 0 - 1)
        delta_q_theta == cmd_quantum_list[cmd + 1]
    IN  [self EXCEPT !.star.b_vec = AddPt(mat, self.star.b_vec),
                     !.qtheta1 = IF forward THEN self.qtheta1 + delta_q_theta
                                 ELSE self.qtheta1 - delta_q_theta]

\* State.get_dx_dy_qrange: inclusive cell range <<dx_qrange, dy_qrange>>
get_dx_dy_qrange(self) ==
    LET pts == RangePts(self.star)
        dx_min == SetMin({DxOf(p) : p \in pts})
        dx_max == SetMax({DxOf(p) : p \in pts})
        dy_min == SetMin({DyOf(p) : p \in pts})
        dy_max == SetMax({DyOf(p) : p \in pts})
    IN  <<<<Floor(dx_min, Pos), Ceil(dx_max, Pos)>>,
          <<Floor(dy_min, Pos), Ceil(dy_max, Pos)>>>>

\* the cells of a range in the order of the two nested loops (qdx outer)
QStates(dx_qrange, dy_qrange) ==
    LET nx == dx_qrange[2] - dx_qrange[1] + 1
        ny == dy_qrange[2] - dy_qrange[1] + 1
    IN  [k \in 1..(nx * ny) |->
            <<dx_qrange[1] + ((k - 1) \div ny), dy_qrange[1] + ((k - 1) % ny)>>]

\* the cells the inner loop does not skip
NonInitQStates(self) ==
    LET r == get_dx_dy_qrange(self)
    IN  SelectSeq(QStates(r[1], r[2]), LAMBDA q : ~is_init_qx_qy(q[1], q[2]))

\* whether the decision function gives the state's last command in a cell
IsCorrect(self, prev_cmd, qstate) ==
    get_cmd(prev_cmd, qstate[1], qstate[2], self.qtheta1, self.qv_own, self.qv_int)
        = Last(self.alpha_prev_list)

correct_qstates(self, prev_cmd) ==
    SelectSeq(NonInitQStates(self), LAMBDA q : IsCorrect(self, prev_cmd, q))

incorrect_qstates(self, prev_cmd) ==
    SelectSeq(NonInitQStates(self), LAMBDA q : ~IsCorrect(self, prev_cmd, q))

all_wrong(self, prev_cmd) == correct_qstates(self, prev_cmd) = <<>>

all_right(self, prev_cmd) == incorrect_qstates(self, prev_cmd) = <<>>

\* the second chance at an unrestricted predecessor never taken
all_incorrect_infeasible_Never(self, prev_cmd) == FALSE

\* lines 246-253: no incorrect cell holds a point of the polytope
all_incorrect_infeasible(self, prev_cmd) ==
    LET bad == incorrect_qstates(self, prev_cmd)
    IN  \A k \in 1..Len(bad) : is_feasible(make_qstar(self.star, bad[k])) = None

\* every correct cell kept, feasible or not
FeasibleCorrect_All(self, prev_cmd) == correct_qstates(self, prev_cmd)

\* the correct cells whose restriction of the star is feasible, in order
FeasibleCorrect(self, prev_cmd) ==
    SelectSeq(correct_qstates(self, prev_cmd),
              LAMBDA q : is_feasible(make_qstar(self.star, q)) # None)

\* `prev_s = self.copy(...); prev_s.alpha_prev_list.append(prev_cmd)`
WithCmd(prev_s, prev_cmd) ==
    [prev_s EXCEPT !.alpha_prev_list = Append(@, prev_cmd)]

\* body of `for prev_cmd in range(5)` of get_predecessors on the stepped
\* state: the states appended to rv for prev_cmd; the copies take their ids
\* from State.next_state_id, which is `id` when the body starts
PredecessorsFor(self, prev_cmd, id) ==
    IF all_wrong(self, prev_cmd) THEN <<>>
    ELSE IF all_right(self, prev_cmd) THEN <<WithCmd(copy(self, id), prev_cmd)>>
    ELSE IF all_incorrect_infeasible(self, prev_cmd)
    THEN <<WithCmd(copy(self, id), prev_cmd)>>
    ELSE LET good == FeasibleCorrect(self, prev_cmd)
         IN  [k \in 1..Len(good) |->
                LET star == make_qstar(self.star, good[k])
                    domain_witness == is_feasible(star)
                IN  WithCmd(copy_with(self, star, domain_witness, id + k - 1),
                            prev_cmd)]

\* rv after the first n iterations of `for prev_cmd in range(5)`
RECURSIVE PredecessorsUpTo(_, _, _)
PredecessorsUpTo(self, n, id) ==
    IF n = 0 THEN <<>>
    ELSE LET before == PredecessorsUpTo(self, n - 1, id)
         IN  before \o PredecessorsFor(self, n - 1, id + Len(before))

\* State.get_predecessors: the predecessors of self in emission order,
\* computed on self stepped back once
get_predecessors(self, id) ==
    PredecessorsUpTo(backstep(self, FALSE, 0 - 1), NumCmds, id)

\* lines 263-272 are reached for prev_cmd: the copies take a new star
NeedsSplit(self, prev_cmd) ==
    /\ ~all_wrong(self, prev_cmd)
    /\ ~all_right(self, prev_cmd)
    /\ ~all_incorrect_infeasible(self, prev_cmd)

\* the stepped state self after the copies made for the first n of the
\* predecessors rv
RECURSIVE SelfAfterCopies(_, _, _)
SelfAfterCopies(self, rv_, n) ==
    IF n = 0 THEN self
    ELSE copy_source(SelfAfterCopies(self, rv_, n - 1),
                     NeedsSplit(self, Last(rv_[n].alpha_prev_list)))

\* the loop of State.print_replay_witness from step i on, at point pt with
\* heading level q_theta1: 0 if every command matched, else the number of
\* the first step that mismatched
RECURSIVE ReplayFrom(_, _, _, _)
ReplayFrom(self, i, pt, q_theta1) ==
    LET n == Len(self.alpha_prev_list)
    IN  IF i >= n - 1 THEN 0
        ELSE LET net_ == self.alpha_prev_list[n - i]
                 expected_cmd == self.alpha_prev_list[n - i - 1]
                 dx == Floor(pt.x_int - pt.x_own, Pos)
                 dy == Floor(0 - pt.y_own, Pos)
                 cmd_out == get_cmd(net_, dx, dy, q_theta1, self.qv_own, self.qv_int)
             IN  IF cmd_out # expected_cmd THEN i + 1
                 ELSE ReplayFrom(self, i + 1,
                                 AddPt(get_time_elapse_mat(cmd_out, 1), pt),
                                 q_theta1 + cmd_quantum_list[cmd_out + 1])

\* State.print_replay_witness: replay the history forward from the witness
print_replay_witness(self) ==
    ReplayFrom(self, 0, domain_to_range(self.star, is_feasible(self.star)[1]),
               self.qtheta1)

(* --------------------------- backreach_single ------------------------- *)

parallel == mode = "par"

\* the process a call runs in: the one process of a sequential run, or the
\* call's own worker
Proc(t) == IF parallel THEN t ELSE 1

\* the test with `>=` in place of `>`
IsCounterexample_NonStrict(p) ==
    LET n == Len(p.alpha_prev_list)
    IN  /\ p.alpha_prev_list[n - 1] = 0
        /\ p.alpha_prev_list[n] = 0
        /\ LET pt == domain_to_range(p.star, p.domain_witness[1])
               dx == pt.x_int - pt.x_own
               dy == 0 - pt.y_own
           IN  dx * dx + dy * dy >= SafetyRadius * SafetyRadius

\* the test of lines 356-365 on a predecessor p
IsCounterexample(p) ==
    LET n == Len(p.alpha_prev_list)
    IN  /\ p.alpha_prev_list[n - 1] = 0
        /\ p.alpha_prev_list[n] = 0
        /\ LET pt == domain_to_range(p.star, p.domain_witness[1])
               dx == pt.x_int - pt.x_own
               dy == 0 - pt.y_own
           IN  dx * dx + dy * dy > SafetyRadius * SafetyRadius

\* the loop condition stopping one state early
WhileCond_OneLeft(t) == Len(work[t]) > 1 /\ rv[t].counterexample = None

\* the loop condition without its test of the counterexample
WhileCond_IgnoresCounterexample(t) == work[t] # <<>>

\* the loop condition `while work and rv['counterexample'] is None`
WhileCond(t) == work[t] # <<>> /\ rv[t].counterexample = None

\* `work.pop(0)`: the oldest state and what is left
work_pop_first(w) == <<Head(w), Tail(w)>>

\* the last state read but left on the list
work_pop_Keep(w) == <<Last(w), w>>

\* `work.pop()`: the state removed and what is left of the list
work_pop(w) == <<Last(w), SubSeq(w, 1, Len(w) - 1)>>

\* the increment done without taking the lock
LockFree_Always == TRUE

\* whether the counter's lock can be taken
LockFree == lock = 0

BlankRv ==
    [counterexample |-> None, runtime |-> "unset", params |-> <<>>,
     num_popped |-> 0, unique_paths |-> 0, index |-> 0 - 1]

\* a pop counter kept from the call before
InitialPopped_Leftover(t) == IF t = 1 THEN 0 ELSE popped[t - 1]

\* the pop counter started at one
InitialPopped_One(t) == 1

\* line 335: `popped = 0`
InitialPopped(t) == 0

\* lines 318-345: take the scenario, build the initial state, set up the search
Begin(t) ==
    /\ pc[t] = "idle"
    /\ IF parallel \/ t = 1 THEN TRUE ELSE pc[t - 1] = "done"
    /\ LET idx == IF parallel THEN shared_index ELSE 0
           prm == IF parallel THEN scenarios[shared_index + 1] ELSE scenarios[1]
           box == init_to_constraints(prm[2], prm[3], prm[5], prm[6], prm[4])
           init_star == Star(box)
           id == next_state_id[Proc(t)]
           init_s == NewState(prm[1], prm[4], prm[5], prm[6], init_star, id)
       IN  /\ shared_index' = IF parallel THEN shared_index + 1 ELSE shared_index
           /\ index' = [index EXCEPT ![t] = idx]
           /\ params' = [params EXCEPT ![t] = prm]
           /\ IF InitAssertOk(init_star)
              THEN /\ pc' = [pc EXCEPT ![t] = "loop"]
                   /\ next_state_id' = [next_state_id EXCEPT ![Proc(t)] = id + 1]
                   /\ work' = [work EXCEPT ![t] = <<init_s>>]
                   /\ rv' = [rv EXCEPT ![t] =
                                [counterexample |-> None, runtime |-> "inf",
                                 params |-> prm, num_popped |-> 0,
                                 unique_paths |-> 0, index |-> idx]]
                   /\ log' = [log EXCEPT ![t] = Append(@, <<"push", id>>)]
              ELSE /\ pc' = [pc EXCEPT ![t] = "aborted"]
                   /\ UNCHANGED <<next_state_id, work, rv, log>>
    /\ popped' = [popped EXCEPT ![t] = InitialPopped(t)]
    /\ deadends' = [deadends EXCEPT ![t] = {}]
    /\ UNCHANGED <<mode, scenarios, net, init_cells, lp_rule, s, predecessors, pi,
                   result, shared_num_counterexamples, lock, tmp, notified, produced>>

\* lines 347-351: one more iteration: pop a state and get its predecessors
Pop(t) ==
    /\ pc[t] = "loop"
    /\ WhileCond(t)
    /\ popped[t] < MaxPopped
    /\ LET s0 == work_pop(work[t])[1]
           id == next_state_id[Proc(t)]
       IN  /\ work' = [work EXCEPT ![t] = work_pop(@)[2]]
           /\ popped' = [popped EXCEPT ![t] = @ + 1]
           /\ log' = [log EXCEPT ![t] = Append(@, <<"pop", s0.state_id>>)]
           /\ IF BackstepAssertOk(Last(s0.alpha_prev_list))
              THEN LET preds == get_predecessors(s0, id)
                   IN  /\ s' = [s EXCEPT ![t] =
                                Some(SelfAfterCopies(backstep(s0, FALSE, 0 - 1),
                                                     preds, Len(preds)))]
                       /\ predecessors' = [predecessors EXCEPT ![t] = preds]
                       /\ pi' = [pi EXCEPT ![t] = 1]
                       /\ next_state_id' =
                            [next_state_id EXCEPT ![Proc(t)] = id + Len(preds)]
                       /\ produced' = [produced EXCEPT ![t] = @ \o preds]
                       /\ pc' = [pc EXCEPT ![t] = "for"]
              ELSE /\ pc' = [pc EXCEPT ![t] = "aborted"]
                   /\ UNCHANGED <<s, predecessors, pi, next_state_id, produced>>
    /\ UNCHANGED <<mode, scenarios, net, init_cells, lp_rule, index, params, rv,
                   deadends, result, shared_index, shared_num_counterexamples,
                   lock, tmp, notified>>

\* lines 353-366, 374: one iteration of `for p in predecessors`
ForStep(t) ==
    /\ pc[t] = "for"
    /\ pi[t] <= Len(predecessors[t])
    /\ LET p == predecessors[t][pi[t]]
       IN  /\ work' = [work EXCEPT ![t] = Append(@, p)]
           /\ log' = [log EXCEPT ![t] = Append(@, <<"push", p.state_id>>)]
           /\ IF IsCounterexample(p)
              THEN /\ rv' = [rv EXCEPT ![t].counterexample = Some(p)]
                   /\ pc' = [pc EXCEPT ![t] = IF parallel THEN "lock" ELSE "after_for"]
                   /\ pi' = pi
              ELSE /\ pi' = [pi EXCEPT ![t] = @ + 1]
                   /\ UNCHANGED <<rv, pc>>
    /\ UNCHANGED <<mode, scenarios, net, init_cells, lp_rule, index, params, popped,
                   deadends, s, predecessors, result, next_state_id, shared_index,
                   shared_num_counterexamples, lock, tmp, notified, produced>>

\* line 369: `with shared_num_counterexamples.get_lock():`
Acquire(t) ==
    /\ pc[t] = "lock"
    /\ LockFree
    /\ lock' = t
    /\ pc' = [pc EXCEPT ![t] = "read"]
    /\ UNCHANGED <<mode, scenarios, net, init_cells, lp_rule, index, params, work,
                   popped, rv, deadends, s, predecessors, pi, result, next_state_id,
                   shared_index, shared_num_counterexamples, tmp, notified,
                   produced, log>>

\* line 370: `shared_num_counterexamples.value += 1`, the read
ReadCounter(t) ==
    /\ pc[t] = "read"
    /\ tmp' = [tmp EXCEPT ![t] = shared_num_counterexamples]
    /\ pc' = [pc EXCEPT ![t] = "write"]
    /\ UNCHANGED <<mode, scenarios, net, init_cells, lp_rule, index, params, work,
                   popped, rv, deadends, s, predecessors, pi, result, next_state_id,
                   shared_index, shared_num_counterexamples, lock, notified,
                   produced, log>>

\* line 370: `shared_num_counterexamples.value += 1`, the write
WriteCounter(t) ==
    /\ pc[t] = "write"
    /\ shared_num_counterexamples' = tmp[t] + 1
    /\ pc' = [pc EXCEPT ![t] = "unlock"]
    /\ UNCHANGED <<mode, scenarios, net, init_cells, lp_rule, index, params, work,
                   popped, rv, deadends, s, predecessors, pi, result, next_state_id,
                   shared_index, lock, tmp, notified, produced, log>>

\* the lock kept by the task that took it
Unlocked_StillHeld == lock

\* the lock's holder once the `with` block is left
Unlocked == 0

\* lines 371-374: leave the `with` block, break
Release(t) ==
    /\ pc[t] = "unlock"
    /\ lock' = Unlocked
    /\ pc' = [pc EXCEPT ![t] = "after_for"]
    /\ UNCHANGED <<mode, scenarios, net, init_cells, lp_rule, index, params, work,
                   popped, rv, deadends, s, predecessors, pi, result, next_state_id,
                   shared_index, shared_num_counterexamples, tmp, notified,
                   produced, log>>

\* every popped state taken for a dead end
NoPredecessors_Always(t) == TRUE

\* line 376: `if not predecessors`
NoPredecessors(t) == predecessors[t] = <<>>

\* lines 376-377: after the for loop (ended or left by break)
AfterFor(t) ==
    /\ \/ pc[t] = "after_for"
       \/ pc[t] = "for" /\ pi[t] > Len(predecessors[t])
    /\ deadends' = [deadends EXCEPT ![t] =
                      IF NoPredecessors(t)
                      THEN @ \cup {s[t][1].alpha_prev_list} ELSE @]
    /\ pc' = [pc EXCEPT ![t] = "loop"]
    /\ UNCHANGED <<mode, scenarios, net, init_cells, lp_rule, index, params, work,
                   popped, rv, s, predecessors, pi, result, next_state_id,
                   shared_index, shared_num_counterexamples, lock, tmp, notified,
                   produced, log>>

\* the result with `rv['num_popped'] = popped` left out
FinalRv_NoPopped(t) ==
    [rv[t] EXCEPT !.runtime = "measured",
                  !.unique_paths = Cardinality(deadends[t])]

\* lines 379-382: rv as it is returned
FinalRv(t) ==
    [rv[t] EXCEPT !.runtime = "measured",
                  !.num_popped = popped[t],
                  !.unique_paths = Cardinality(deadends[t])]

\* lines 379-387: the loop has ended; fill in the result and return it
Return(t) ==
    /\ pc[t] = "loop"
    /\ ~WhileCond(t)
    /\ LET r == FinalRv(t)
       IN  /\ rv' = [rv EXCEPT ![t] = r]
           /\ result' = [result EXCEPT ![t] = Some(r)]
           /\ notified' = IF r.counterexample # None /\ parallel
                          THEN notified \cup {r.index} ELSE notified
    /\ pc' = [pc EXCEPT ![t] = "done"]
    /\ UNCHANGED <<mode, scenarios, net, init_cells, lp_rule, index, params, work,
                   popped, deadends, s, predecessors, pi, next_state_id,
                   shared_index, shared_num_counterexamples, lock, tmp,
                   produced, log>>

(* ------------------------------ scenarios ----------------------------- *)

\* decision functions tried
Nets ==
    {[kind |-> "const", near |-> 0, far |-> 0, thr |-> 0],
     [kind |-> "const", near |-> 1, far |-> 1, thr |-> 0],
     [kind |-> "dx", near |-> 1, far |-> 0, thr |-> 3],
     [kind |-> "dx", near |-> 0, far |-> 1, thr |-> 4],
     [kind |-> "theta", near |-> 0, far |-> 1, thr |-> 3],
     [kind |-> "dy", near |-> 0, far |-> 3, thr |-> 1],
     [kind |-> "prev", near |-> 1, far |-> 0, thr |-> 3],
     [kind |-> "theta", near |-> 1, far |-> 0, thr |-> 0],
     [kind |-> "hyst", near |-> 1, far |-> 0, thr |-> 3],
     [kind |-> "speed", near |-> 0, far |-> 1, thr |-> 0]}

\* sets of scenario-initial cells tried
InitCellSets ==
    {{}, {<<2, 0>>}, {<<1, 0>>, <<1, 1>>, <<2, 1>>}, {<<2, 0>>, <<3, 0>>}}

\* scenario tuples (init_alpha_prev, x_own, y_own, theta1, v_own, v_int)
SeqParams ==
    {<<a, x, y, 0, 2, 7>> :
        a \in {0, 1, NumCmds},
        x \in {<<0 - 2, 0 - 1>>, <<0 - 1, 0>>, <<0, 0 - 1>>},
        y \in {<<0, 0>>, <<0 - 1, 0>>}}

ParParams ==
    {<<a, <<0 - 3, 0 - 2>>, <<0, 0>>, 0, 2, 7>> : a \in {0, 1, NumCmds}}
        \cup {<<0, <<0, 0 - 1>>, <<0, 0>>, 0, 2, 7>>}

ParNets == {[kind |-> "const", near |-> 0, far |-> 0, thr |-> 0]}

Init ==
    /\ mode \in {"seq", "par"}
    /\ IF mode = "seq"
       THEN /\ scenarios \in {<<prm>> : prm \in SeqParams}
            /\ net \in Nets
            /\ init_cells \in InitCellSets
            /\ lp_rule \in {"lo", "hi"}
       ELSE /\ scenarios \in [Tasks -> ParParams]
            /\ net \in ParNets
            /\ init_cells = {}
            /\ lp_rule = "lo"
    /\ pc = [t \in Tasks |-> "idle"]
    /\ index = [t \in Tasks |-> 0 - 1]
    /\ params = [t \in Tasks |-> <<>>]
    /\ work = [t \in Tasks |-> <<>>]
    /\ popped = [t \in Tasks |-> 0]
    /\ rv = [t \in Tasks |-> BlankRv]
    /\ deadends = [t \in Tasks |-> {}]
    /\ s = [t \in Tasks |-> None]
    /\ predecessors = [t \in Tasks |-> <<>>]
    /\ pi = [t \in Tasks |-> 1]
    /\ result = [t \in Tasks |-> None]
    /\ next_state_id = [t \in Tasks |-> 0]
    /\ shared_index = 0
    /\ shared_num_counterexamples = 0
    /\ lock = 0
    /\ tmp = [t \in Tasks |-> 0]
    /\ notified = {}
    /\ produced = [t \in Tasks |-> <<>>]
    /\ log = [t \in Tasks |-> <<>>]

Next ==
    \E t \in Tasks :
        \/ Begin(t)
        \/ Pop(t)
        \/ ForStep(t)
        \/ Acquire(t)
        \/ ReadCounter(t)
        \/ WriteCounter(t)
        \/ Release(t)
        \/ AfterFor(t)
        \/ Return(t)

Spec == Init /\ [][Next]_vars

\* the steps of task t other than the pop
Other(t) ==
    \/ Begin(t) \/ ForStep(t) \/ Acquire(t) \/ ReadCounter(t)
    \/ WriteCounter(t) \/ Release(t) \/ AfterFor(t) \/ Return(t)

\* Pop(t) by its guard and its effect on `popped`: a step of Next is a
\* PopStep(t) step exactly when it is a Pop(t) step, and the two are enabled
\* in the same states
PopStep(t) ==
    /\ pc[t] = "loop"
    /\ WhileCond(t)
    /\ popped[t] < MaxPopped
    /\ popped' = [popped EXCEPT ![t] = @ + 1]

\* every process keeps running: a task that can take its next step
\* eventually takes it
FairSpec ==
    Spec /\ \A t \in Tasks : WF_vars(Other(t)) /\ WF_popped(PopStep(t))

(* ------------------------- properties checked ------------------------- *)

\* the two most recent commands of a state are both clear
TrailingClear(p) ==
    /\ Len(p.alpha_prev_list) >= 2
    /\ p.alpha_prev_list[Len(p.alpha_prev_list)] = 0
    /\ p.alpha_prev_list[Len(p.alpha_prev_list) - 1] = 0

\* squared own-to-intruder separation at the witness of a state
Separation2(p) ==
    LET pt == domain_to_range(p.star, p.domain_witness[1])
    IN  (pt.x_int - pt.x_own) * (pt.x_int - pt.x_own) + pt.y_own * pt.y_own

\* the counterexample condition as the specification states it
UnsafeClear(p) ==
    TrailingClear(p) /\ Separation2(p) > SafetyRadius * SafetyRadius

Returned(t) == result[t] # None

Found(t) == rv[t].counterexample # None

\* C2: once a predecessor satisfies the counterexample condition the task
\* stops: nothing more is pushed or popped (the frontier, the pop count and
\* the for loop's position stay as they are), and the counterexample is a
\* copy of the first satisfying predecessor in emission order.
C2_StopsAtFirst ==
    /\ [](\A t \in Tasks :
            Found(t) =>
                \E k \in 1..Len(produced[t]) :
                    /\ rv[t].counterexample[1] = produced[t][k]
                    /\ UnsafeClear(produced[t][k])
                    /\ \A j \in 1..(k - 1) : ~UnsafeClear(produced[t][j])
                    /\ Last(log[t]) = <<"push", produced[t][k].state_id>>)
    /\ [][\A t \in Tasks :
            Found(t) =>
                /\ popped'[t] = popped[t]
                /\ work'[t] = work[t]
                /\ log'[t] = log[t]
                /\ pi'[t] = pi[t]
                /\ rv'[t].counterexample = rv[t].counterexample]_vars

\* a result returned with a counterexample while a later predecessor of
\* the same popped state, which also satisfies the condition, was never
\* examined
C2_Witness ==
    \E t \in Tasks :
        /\ Returned(t)
        /\ Found(t)
        /\ result[t][1].num_popped = popped[t]
        /\ \E j \in (pi[t] + 1)..Len(predecessors[t]) :
              UnsafeClear(predecessors[t][j])

\* the state of a task's state machine
Phase(t) ==
    IF pc[t] = "idle" THEN "INIT"
    ELSE IF pc[t] = "aborted" THEN "ABORTED"
    ELSE IF pc[t] # "done" THEN "RUNNING"
    ELSE IF result[t][1].counterexample # None THEN "FOUND"
    ELSE "EXHAUSTED"

\* C3: a task goes INIT -> RUNNING -> FOUND or EXHAUSTED (or aborts); the
\* loop has ended only with a counterexample recorded or an empty frontier,
\* and a task that ended with an empty frontier, no predecessor ever having
\* satisfied the counterexample condition, returns no counterexample.
C3_StateMachine ==
    /\ [](\A t \in Tasks :
            Returned(t) =>
                /\ Found(t) \/ work[t] = <<>>
                /\ Phase(t) = "FOUND" <=> Found(t)
                /\ (work[t] = <<>>
                      /\ \A k \in 1..Len(produced[t]) : ~UnsafeClear(produced[t][k]))
                     => result[t][1].counterexample = None)
    /\ [][\A t \in Tasks :
            \/ Phase(t)' = Phase(t)
            \/ Phase(t) = "INIT" /\ Phase(t)' \in {"RUNNING", "ABORTED"}
            \/ Phase(t) = "RUNNING" /\ Phase(t)' \in {"FOUND", "EXHAUSTED", "ABORTED"}]_vars

\* a task that ended EXHAUSTED after several pops, having produced
\* predecessors with two trailing clears of which none was far enough
C3_Witness ==
    \E t \in Tasks :
        /\ Phase(t) = "EXHAUSTED"
        /\ work[t] = <<>>
        /\ result[t][1].num_popped >= 3
        /\ \E k \in 1..Len(produced[t]) : TrailingClear(produced[t][k])

\* every predecessor produced so far
AllProduced == UNION {{produced[t][k] : k \in 1..Len(produced[t])} : t \in Tasks}

\* the cells of the points of a state's region
CellsOf(p) == {CellOf(pt) : pt \in RangePts(p.star)}

\* some point of the state's region lies in a scenario-initial cell
TouchesInitCell(p) == \E q \in CellsOf(p) : is_init_qx_qy(q[1], q[2])

\* C4: replaying a produced predecessor's command history forward from its
\* witness reproduces that history with no mismatch at any step.
C4_ReplayMatches ==
    \A p \in AllProduced : print_replay_witness(p) = 0

\* C4, for the predecessors whose history never passed through a region
\* that touches a scenario-initial cell
C4_ReplayMatchesNoInitCells ==
    init_cells = {} => \A p \in AllProduced : print_replay_witness(p) = 0

\* C5: no point of the region of an emitted predecessor, its witness
\* included, lies in a cell for which is_init_qx_qy holds.
C5_NoInitCell ==
    \A p \in AllProduced : ~TouchesInitCell(p)

\* C5, for the predecessors emitted with a restriction to one cell
C5_RestrictedNoInitCell ==
    \A p \in AllProduced : Cardinality(CellsOf(p)) = 1 => ~TouchesInitCell(p)

\* the ids pushed and not yet popped in the first n entries of a log, in
\* the order they were pushed
RECURSIVE OpenPushes(_, _)
OpenPushes(l, n) ==
    IF n = 0 THEN <<>>
    ELSE LET before == OpenPushes(l, n - 1)
         IN  IF l[n][1] = "push" THEN Append(before, l[n][2])
             ELSE SelectSeq(before, LAMBDA x : x # l[n][2])

\* C6: the frontier is last-in-first-out: every pop removed the state
\* pushed most recently among those still on the frontier, and the frontier
\* holds exactly the states pushed and not yet popped, in push order (so a
\* later-emitted sibling and its whole subtree are popped before an
\* earlier-emitted sibling).
C6_Lifo ==
    \A t \in Tasks :
        /\ \A j \in 1..Len(log[t]) :
              log[t][j][1] = "pop" =>
                  /\ OpenPushes(log[t], j - 1) # <<>>
                  /\ log[t][j][2] = Last(OpenPushes(log[t], j - 1))
        /\ [k \in 1..Len(work[t]) |-> work[t][k].state_id]
              = OpenPushes(log[t], Len(log[t]))

\* a state two levels down is being expanded while a state emitted before
\* one of its ancestors' siblings is still waiting on the frontier
C6_Witness ==
    \E t \in Tasks :
        /\ pc[t] = "for"
        /\ Len(s[t][1].alpha_prev_list) >= 3
        /\ \E k \in 1..Len(work[t]) :
              /\ Len(work[t][k].alpha_prev_list) < Len(s[t][1].alpha_prev_list)
              /\ work[t][k].state_id < s[t][1].state_id

\* the tasks that have finished, by returning or by aborting
Finished(t) == pc[t] \in {"done", "aborted"}

\* the task-local search state of a task
SearchState(t) ==
    <<work[t], popped[t], rv[t], deadends[t], s[t], predecessors[t], pi[t],
      produced[t], log[t], next_state_id[Proc(t)]>>

\* C7: with the tasks running in parallel, the shared counter is
\* incremented once by each task that found a counterexample and by no
\* other: the increment is done holding the lock, at any time the counter
\* equals the number of tasks that have completed their increment, and
\* when all tasks have finished it equals the number of tasks that found a
\* counterexample; a step of one task leaves the search state of every
\* other task unchanged.
C7_CounterExact ==
    /\ [](parallel =>
            /\ \A t \in Tasks : pc[t] \in {"read", "write", "unlock"} => lock = t
            /\ shared_num_counterexamples
                 = Cardinality({t \in Tasks :
                                   Found(t) /\ pc[t] \notin {"for", "lock", "read", "write"}})
            /\ (\A t \in Tasks : Finished(t))
                 => shared_num_counterexamples
                      = Cardinality({t \in Tasks : Returned(t) /\ Found(t)}))
    /\ [][parallel =>
            \E u \in Tasks :
                \A t \in Tasks \ {u} : SearchState(t)' = SearchState(t)]_vars

\* all parallel tasks have finished, two of them with a counterexample
\* and so with an increment each
C7_Witness ==
    /\ parallel
    /\ \A t \in Tasks : Finished(t)
    /\ Cardinality({t \in Tasks : Returned(t) /\ Found(t)}) >= 2
    /\ shared_num_counterexamples >= 2

\* the scenario tuple given to a task that has started
Given(t) == IF parallel THEN scenarios[index[t] + 1] ELSE scenarios[1]

\* the initial polytope of a scenario tuple has no point
InfeasibleScenario(prm) ==
    init_to_constraints(prm[2], prm[3], prm[5], prm[6], prm[4]) = {}

\* C8: a task returns a complete result or none at all: a task built from
\* an infeasible polytope, or that stepped a state whose last command is
\* outside 0..4, has aborted and returned nothing, and only such tasks
\* abort; a returned result has runtime, num_popped, unique_paths, index,
\* params and counterexample set, params being the scenario tuple given.
C8_CompleteOrAbort ==
    \A t \in Tasks :
        /\ pc[t] # "idle" /\ InfeasibleScenario(Given(t)) => pc[t] = "aborted"
        /\ pc[t] # "idle" /\ popped[t] >= 1 /\ Given(t)[1] \notin 0..4
             => pc[t] = "aborted"
        /\ pc[t] = "aborted"
             => InfeasibleScenario(Given(t)) \/ Given(t)[1] \notin 0..4
        /\ Returned(t) <=> pc[t] = "done"
        /\ Returned(t) =>
             /\ result[t][1].runtime = "measured"
             /\ result[t][1].num_popped = popped[t]
             /\ result[t][1].num_popped >= 1
             /\ result[t][1].unique_paths = Cardinality(deadends[t])
             /\ result[t][1].index = index[t]
             /\ result[t][1].params = Given(t)
             /\ result[t][1].counterexample = rv[t].counterexample

\* one task aborted on stepping an out-of-range command and returned
\* nothing, another returned its result after finding dead ends
C8_Witness ==
    \E t, u \in Tasks :
        /\ pc[t] = "aborted" /\ popped[t] = 1 /\ ~Returned(t)
        /\ Given(t)[1] \notin 0..4
        /\ Returned(u) /\ result[u][1].unique_paths >= 1

\* a state without its id
NoId(p) == [p EXCEPT !.state_id = 0]

\* two results agree on everything but the ids of the states involved
SameOutcome(r1, r2) ==
    /\ r1.num_popped = r2.num_popped
    /\ r1.unique_paths = r2.unique_paths
    /\ r1.counterexample = None <=> r2.counterexample = None
    /\ r1.counterexample # None
         => NoId(r1.counterexample[1]) = NoId(r2.counterexample[1])

\* C9: two calls given the same scenario tuple (the decision function is
\* the same throughout) that have both finished ended the same way, and if
\* they returned, with the same num_popped, the same unique_paths and the
\* same counterexample up to state ids, whatever State.next_state_id was
\* when each started.
C9_Deterministic ==
    \A t, u \in Tasks :
        (Finished(t) /\ Finished(u) /\ Given(t) = Given(u)) =>
            /\ pc[t] = pc[u]
            /\ Returned(t) => SameOutcome(result[t][1], result[u][1])

\* two sequential runs of one scenario, the second started with the id
\* counter left by the first, both returned with a counterexample whose
\* state ids differ
C9_Witness ==
    /\ ~parallel
    /\ Returned(1) /\ Returned(2)
    /\ result[1][1].num_popped >= 2
    /\ result[1][1].counterexample # None
    /\ result[2][1].counterexample # None
    /\ result[1][1].counterexample[1].state_id
         # result[2][1].counterexample[1].state_id

\* a scenario in which every cell gives the same turn command, the one the
\* search starts from
AlwaysSameTurn ==
    /\ net.kind = "const"
    /\ net.far # 0
    /\ \A k \in 1..Len(scenarios) :
          scenarios[k][1] = net.far /\ ~InfeasibleScenario(scenarios[k])

RangeCells(self) ==
    LET r == get_dx_dy_qrange(self)
    IN  {q \in (r[1][1]..r[1][2]) \X (r[2][1]..r[2][2]) :
            ~is_init_qx_qy(q[1], q[2])}

\* the cells in which the decision function, after command c, gives the
\* state's known current command
MatchCells(self, c) ==
    {q \in RangeCells(self) :
        get_cmd(c, q[1], q[2], self.qtheta1, self.qv_own, self.qv_int)
            = Last(self.alpha_prev_list)}

MismatchCells(self, c) == RangeCells(self) \ MatchCells(self, c)

\* the domain points of a state's polytope that fall into a cell
PointsIn(self, q) ==
    {d \in self.star.dom : CellOf(domain_to_range(self.star, d)) = q}

\* the predecessors of the state popped last that have c appended
EmittedFor(t, c) ==
    SelectSeq(predecessors[t], LAMBDA p : Last(p.alpha_prev_list) = c)

\* every mismatching cell's restriction of the polytope is infeasible
NoPointMismatches(self, c) ==
    \A q \in MismatchCells(self, c) : PointsIn(self, q) = {}

\* C11: for each candidate previous command c on its own: when no
\* non-initial cell of the stepped range matches (also when there is no
\* non-initial cell), nothing with c appended is emitted; when some cell
\* matches and every mismatching cell, if any, has an infeasible
\* restriction, exactly one predecessor with c appended is emitted, and it
\* carries the stepped polytope unrestricted.
C11_DiscardOrSingle ==
    \A t \in Tasks : s[t] # None =>
        \A c \in Cmds :
            LET self == s[t][1]
                em == EmittedFor(t, c)
            IN  /\ MatchCells(self, c) = {} => em = <<>>
                /\ (MatchCells(self, c) # {} /\ NoPointMismatches(self, c)) =>
                      /\ Len(em) = 1
                      /\ em[1].star = self.star
                      /\ em[1].alpha_prev_list = Append(self.alpha_prev_list, c)

\* one popped state for which one command has no matching cell among its
\* non-initial cells, another has only matching cells, and a third has
\* mismatching cells none of which holds a point of the polytope
C11_Witness ==
    \E t \in Tasks :
        /\ pc[t] = "for"
        /\ \E c \in Cmds :
              /\ RangeCells(s[t][1]) # {}
              /\ MatchCells(s[t][1], c) = {}
              /\ EmittedFor(t, c) = <<>>
        /\ \E c \in Cmds :
              /\ MismatchCells(s[t][1], c) = {}
              /\ MatchCells(s[t][1], c) # {}
              /\ Len(EmittedFor(t, c)) = 1
        /\ \E c \in Cmds :
              /\ MismatchCells(s[t][1], c) # {}
              /\ MatchCells(s[t][1], c) # {}
              /\ NoPointMismatches(s[t][1], c)
              /\ Len(EmittedFor(t, c)) = 1

\* the matching cells whose restriction of the polytope is feasible
FeasibleMatchCells(self, c) ==
    {q \in MatchCells(self, c) : PointsIn(self, q) # {}}

\* some cells match, some mismatch, and a mismatching cell holds a point
MustSplit(self, c) ==
    /\ MatchCells(self, c) # {}
    /\ \E q \in MismatchCells(self, c) : PointsIn(self, q) # {}

\* predecessor p of self carries the restriction of the polytope to cell q
\* and a witness of that restriction
RestrictedTo(p, self, q) ==
    /\ p.star.dom = PointsIn(self, q)
    /\ p.star.b_vec = self.star.b_vec
    /\ p.domain_witness # None
    /\ p.domain_witness[1] \in PointsIn(self, q)
    /\ p.domain_witness = is_feasible(p.star)

\* C12: when for command c some cells match and a mismatching cell's
\* restriction is feasible, the predecessors emitted for c are one per
\* matching cell with a feasible restriction and no others: each carries
\* that cell's restricted polytope and its witness and has c appended to
\* the popped state's history; nothing is emitted for a matching cell
\* with an infeasible restriction or for a mismatching cell.
C12_SplitPerFeasibleMatch ==
    \A t \in Tasks : s[t] # None =>
        \A c \in Cmds :
            LET self == s[t][1]
                em == EmittedFor(t, c)
            IN  MustSplit(self, c) =>
                  /\ Len(em) = Cardinality(FeasibleMatchCells(self, c))
                  /\ \A k \in 1..Len(em) :
                        /\ \E q \in FeasibleMatchCells(self, c) :
                              RestrictedTo(em[k], self, q)
                        /\ em[k].alpha_prev_list = Append(self.alpha_prev_list, c)
                  /\ \A q \in FeasibleMatchCells(self, c) :
                        \E k \in 1..Len(em) : RestrictedTo(em[k], self, q)

\* a split that emitted two restricted predecessors for one command and
\* dropped a matching cell that holds no point of the polytope
C12_Witness ==
    \E t \in Tasks :
        /\ pc[t] = "for"
        /\ \E c \in Cmds :
              /\ MustSplit(s[t][1], c)
              /\ Len(EmittedFor(t, c)) >= 2
              /\ FeasibleMatchCells(s[t][1], c) # MatchCells(s[t][1], c)

\* every point of predecessor p of self, emitted for its last command,
\* lies in a cell where the decision function gives self's current command
OnlyGenuinePoints(p, self) ==
    \A pt \in RangePts(p.star) :
        get_cmd(Last(p.alpha_prev_list), CellOf(pt)[1], CellOf(pt)[2],
                self.qtheta1, self.qv_own, self.qv_int)
            = Last(self.alpha_prev_list)

\* C13: every predecessor emitted for command c contains only points for
\* which the decision function, queried with c, the point's cell, the
\* stepped heading level and the speed levels, returns the popped state's
\* known current command.
C13_OnlyGenuinePoints ==
    \A t \in Tasks : s[t] # None =>
        \A k \in 1..Len(predecessors[t]) :
            OnlyGenuinePoints(predecessors[t][k], s[t][1])

\* C13, for the points outside the scenario-initial cells
C13_GenuineOutsideInitCells ==
    \A t \in Tasks : s[t] # None =>
        \A k \in 1..Len(predecessors[t]) :
            \A pt \in RangePts(predecessors[t][k].star) :
                \/ is_init_qx_qy(CellOf(pt)[1], CellOf(pt)[2])
                \/ get_cmd(Last(predecessors[t][k].alpha_prev_list),
                           CellOf(pt)[1], CellOf(pt)[2], s[t][1].qtheta1,
                           s[t][1].qv_own, s[t][1].qv_int)
                     = Last(s[t][1].alpha_prev_list)

\* C14: a predecessor that satisfies the counterexample condition is never
\* an element of the frontier (it is checked before it is pushed, and only
\* survivors are pushed).
C14_NeverOnFrontier ==
    \A t \in Tasks :
        \A k \in 1..Len(work[t]) :
            Len(work[t][k].alpha_prev_list) >= 2 => ~IsCounterexample(work[t][k])

\* C14, as the code orders it: every predecessor is pushed, then tested;
\* a state on the frontier satisfies the counterexample condition only if
\* it is the last one pushed and is the counterexample recorded, after
\* which nothing is popped.
C14_PushedThenTested ==
    /\ [](\A t \in Tasks :
            \A k \in 1..Len(work[t]) :
                (Len(work[t][k].alpha_prev_list) >= 2 /\ IsCounterexample(work[t][k]))
                    => /\ k = Len(work[t])
                       /\ rv[t].counterexample = Some(work[t][k]))
    /\ [][\A t \in Tasks : Found(t) => UNCHANGED <<work[t], popped[t]>>]_vars

\* a task that found a counterexample returned with the satisfying
\* predecessor still on top of its frontier
C14_Witness ==
    \E t \in Tasks :
        /\ Returned(t)
        /\ Found(t)
        /\ work[t] # <<>>
        /\ IsCounterexample(Last(work[t]))
        /\ result[t][1].counterexample = Some(Last(work[t]))

(* ------------------------- the log of a search ------------------------ *)

\* the command history of the state with a given id in task t: that of
\* the predecessor produced with the id, or of the initial state
HistoryOf(t, id) ==
    IF \E k \in 1..Len(produced[t]) : produced[t][k].state_id = id
    THEN LET k == CHOOSE k \in 1..Len(produced[t]) : produced[t][k].state_id = id
         IN  produced[t][k].alpha_prev_list
    ELSE <<Given(t)[1]>>

\* the positions in the log of the pops of task t
Pops(t) == {j \in 1..Len(log[t]) : log[t][j][1] = "pop"}

\* the pops whose iteration has ended with nothing pushed: the next entry
\* of the log is a pop again, or the log ends there and the task is back
\* at the loop condition or has returned
ZeroPredecessorPops(t) ==
    {j \in Pops(t) :
        IF j < Len(log[t]) THEN log[t][j + 1][1] = "pop"
        ELSE pc[t] \in {"loop", "done"}}

\* C15: the dead-end set holds exactly the command histories of the
\* popped states for which get_predecessors returned nothing, and
\* unique_paths is the number of distinct histories so recorded, which
\* never exceeds the number of popped states without predecessors.
C15_DeadEnds ==
    \A t \in Tasks :
        /\ deadends[t] = {HistoryOf(t, log[t][j][2]) : j \in ZeroPredecessorPops(t)}
        /\ Returned(t) =>
              /\ result[t][1].unique_paths = Cardinality(deadends[t])
              /\ result[t][1].unique_paths <= Cardinality(ZeroPredecessorPops(t))

\* a returned task in which two popped states without predecessors share
\* one history, so that unique_paths undercounts them, and in which a
\* popped state with predecessors left no entry
C15_Witness ==
    \E t \in Tasks :
        /\ Returned(t)
        /\ result[t][1].unique_paths >= 1
        /\ result[t][1].unique_paths < Cardinality(ZeroPredecessorPops(t))
        /\ Pops(t) # ZeroPredecessorPops(t)

\* the initial state of task t as backreach_single built it, with its id
InitialState(t, id) ==
    LET prm == Given(t)
    IN  NewState(prm[1], prm[4], prm[5], prm[6],
                 Star(init_to_constraints(prm[2], prm[3], prm[5], prm[6], prm[4])),
                 id)

\* the state with a given id in task t as it was pushed
StateOf(t, id) ==
    IF \E k \in 1..Len(produced[t]) : produced[t][k].state_id = id
    THEN produced[t][CHOOSE k \in 1..Len(produced[t]) : produced[t][k].state_id = id]
    ELSE InitialState(t, id)

\* the id of the state task t popped last
LastPoppedId(t) ==
    log[t][CHOOSE j \in Pops(t) : \A i \in Pops(t) : i <= j][2]

\* the ids of the initial state and of every predecessor produced, in order
IdsGiven(t) ==
    IF log[t] = <<>> THEN <<>>
    ELSE <<log[t][1][2]>> \o [k \in 1..Len(produced[t]) |-> produced[t][k].state_id]

\* C16: a copy is an independent state with a new id: no two states of a
\* task share an id; every predecessor has the levels of the stepped
\* popped state and that state's history with one command appended,
\* whatever was appended to its siblings; and after get_predecessors has
\* made its copies, with or without a replacement polytope, the popped
\* state is exactly its stepped self: polytope, witness, history and
\* levels are what the backward step left.
C16_CopyIndependent ==
    \A t \in Tasks :
        /\ \A i, j \in 1..Len(IdsGiven(t)) :
              i # j => IdsGiven(t)[i] # IdsGiven(t)[j]
        /\ s[t] # None =>
              /\ s[t][1] = backstep(StateOf(t, LastPoppedId(t)), FALSE, 0 - 1)
              /\ \A k \in 1..Len(predecessors[t]) :
                    LET p == predecessors[t][k]
                    IN  /\ p.state_id # s[t][1].state_id
                        /\ p.qtheta1 = s[t][1].qtheta1
                        /\ p.qv_own = s[t][1].qv_own
                        /\ p.qv_int = s[t][1].qv_int
                        /\ Len(p.alpha_prev_list) = Len(s[t][1].alpha_prev_list) + 1
                        /\ SubSeq(p.alpha_prev_list, 1, Len(s[t][1].alpha_prev_list))
                             = s[t][1].alpha_prev_list
                        /\ p.star.b_vec = s[t][1].star.b_vec
                        /\ p.star.dom \subseteq s[t][1].star.dom

\* a popped state with a history of two commands whose predecessors
\* include copies with a replacement polytope and a copy without one,
\* with different commands appended
C16_Witness ==
    \E t \in Tasks :
        /\ pc[t] = "for"
        /\ Len(s[t][1].alpha_prev_list) >= 2
        /\ \E i, j \in 1..Len(predecessors[t]) :
              /\ predecessors[t][i].star # s[t][1].star
              /\ predecessors[t][j].star = s[t][1].star
              /\ Last(predecessors[t][i].alpha_prev_list)
                   # Last(predecessors[t][j].alpha_prev_list)

\* the ids of the states task t has popped, in order
PoppedIds(t) ==
    LET pops == SelectSeq(log[t], LAMBDA e : e[1] = "pop")
    IN  [k \in 1..Len(pops) |-> pops[k][2]]

\* C17: the backward step is applied to an instance at most once: it is
\* applied only to the state just popped, no state is popped twice, and
\* every state on the frontier is an instance that has not been popped
\* and is still as it was when pushed, so not stepped; the stepped
\* instance is not on the frontier.
C17_StepOnce ==
    \A t \in Tasks :
        /\ \A i, j \in 1..Len(PoppedIds(t)) :
              i # j => PoppedIds(t)[i] # PoppedIds(t)[j]
        /\ \A k \in 1..Len(work[t]) :
              /\ \A i \in 1..Len(PoppedIds(t)) :
                    work[t][k].state_id # PoppedIds(t)[i]
              /\ work[t][k] = StateOf(t, work[t][k].state_id)
        /\ s[t] # None =>
              /\ s[t][1].state_id = PoppedIds(t)[Len(PoppedIds(t))]
              /\ s[t][1].star.b_vec
                   = AddPt(get_time_elapse_mat(Last(s[t][1].alpha_prev_list), 0 - 1),
                           StateOf(t, s[t][1].state_id).star.b_vec)

\* a task that has popped and stepped three states, the last of them a
\* predecessor of a predecessor, with other states still on its frontier
C17_Witness ==
    \E t \in Tasks :
        /\ pc[t] = "for"
        /\ Len(PoppedIds(t)) >= 3
        /\ Len(s[t][1].alpha_prev_list) >= 3
        /\ Len(work[t]) >= 2

\* the sum of the heading quantum deltas of the first n commands of h
RECURSIVE SumDeltas(_, _)
SumDeltas(h, n) ==
    IF n = 0 THEN 0 ELSE SumDeltas(h, n - 1) + cmd_quantum_list[h[n] + 1]

\* the position in the log of the push of the state with a given id
PushOf(t, id) == CHOOSE j \in 1..Len(log[t]) : log[t][j] = <<"push", id>>

\* the id of the parent of a pushed state: the state popped last before
\* its push
ParentId(t, id) ==
    log[t][CHOOSE j \in Pops(t) :
              /\ j < PushOf(t, id)
              /\ \A i \in Pops(t) : i < PushOf(t, id) => i <= j][2]

\* a frontier state of task t has the scenario's speed levels, a history
\* that is the scenario's initial command or its parent's history with one
\* command of 0..4 appended, and the scenario's heading level less the
\* deltas of all commands of its history but the last
FrontierShape(t, p) ==
    /\ p.qv_own = Given(t)[5]
    /\ p.qv_int = Given(t)[6]
    /\ p.alpha_prev_list # <<>>
    /\ IF PushOf(t, p.state_id) = 1
       THEN p.alpha_prev_list = <<Given(t)[1]>>
       ELSE \E c \in 0..4 :
               p.alpha_prev_list
                   = Append(HistoryOf(t, ParentId(t, p.state_id)), c)
    /\ LET n == Len(p.alpha_prev_list)
       IN  /\ \A i \in 1..(n - 1) : p.alpha_prev_list[i] \in 0..4
           /\ p.qtheta1 = Given(t)[4] - SumDeltas(p.alpha_prev_list, n - 1)

\* C18 as claimed: every frontier state has the scenario's speed levels, a
\* non-empty history with every code in 0..4 that is its parent's history
\* with one command appended, and a heading level equal to the scenario's
\* less the deltas of all commands of its history except the last.
C18_FrontierShapeAllCodes ==
    \A t \in Tasks :
        \A k \in 1..Len(work[t]) :
            /\ FrontierShape(t, work[t][k])
            /\ \A i \in 1..Len(work[t][k].alpha_prev_list) :
                  work[t][k].alpha_prev_list[i] \in 0..4

\* C18, amended: the same, except that the scenario's initial command is
\* taken as given: a history consisting of it alone may hold a code
\* outside 0..4 until the state is popped and stepped; every command
\* appended by the search is in 0..4.
C18_FrontierShape ==
    \A t \in Tasks :
        \A k \in 1..Len(work[t]) :
            /\ FrontierShape(t, work[t][k])
            /\ \A i \in 1..Len(work[t][k].alpha_prev_list) :
                  \/ work[t][k].alpha_prev_list[i] \in 0..4
                  \/ /\ i = 1
                     /\ Len(work[t][k].alpha_prev_list) = 1
                     /\ popped[t] = 0

\* a frontier state three commands deep whose heading level has moved away
\* from the scenario's
C18_Witness ==
    \E t \in Tasks :
        \E k \in 1..Len(work[t]) :
            /\ Len(work[t][k].alpha_prev_list) >= 3
            /\ work[t][k].qtheta1 # Given(t)[4]
            /\ work[t][k].alpha_prev_list[Len(work[t][k].alpha_prev_list)] # 0

\* C19: every state on the frontier has a witness, and the witness is a
\* point of the state's own polytope (a restriction without a feasible
\* point never becomes a state; an unrestricted predecessor keeps a
\* witness that lies in the stepped polytope).
C19_WitnessInPolytope ==
    \A t \in Tasks :
        \A k \in 1..Len(work[t]) :
            /\ work[t][k].domain_witness # None
            /\ work[t][k].domain_witness[1] \in work[t][k].star.dom
            /\ domain_to_range(work[t][k].star, work[t][k].domain_witness[1])
                 \in RangePts(work[t][k].star)

\* a frontier that holds an unrestricted predecessor and a predecessor
\* restricted to part of its parent's polytope, pushed after a split that
\* dropped a matching cell without a feasible point
C19_Witness ==
    \E t \in Tasks :
        /\ s[t] # None
        /\ \E c \in Cmds :
              /\ MustSplit(s[t][1], c)
              /\ FeasibleMatchCells(s[t][1], c) # MatchCells(s[t][1], c)
        /\ \E i, j \in 1..Len(work[t]) :
              /\ Len(work[t][i].alpha_prev_list) >= 2
              /\ work[t][i].star.dom # InitialState(t, 0).star.dom
              /\ Len(work[t][j].alpha_prev_list) >= 2
              /\ work[t][j].star.dom = InitialState(t, 0).star.dom

\* the ids of the states task t has pushed
PushedIds(t) == {log[t][j][2] : j \in (1..Len(log[t])) \ Pops(t)}

\* C20: no pushed state is popped twice and num_popped counts exactly the
\* pops: the counter equals the number of pops at all times, a returned
\* result has num_popped equal to it and at least 1, and when a task
\* returns without a counterexample every pushed state has been popped,
\* so num_popped is 1 plus the number of predecessors get_predecessors
\* emitted in that task.
C20_PoppedCountsPops ==
    \A t \in Tasks :
        /\ \A i, j \in 1..Len(PoppedIds(t)) :
              i # j => PoppedIds(t)[i] # PoppedIds(t)[j]
        /\ popped[t] = Len(PoppedIds(t))
        /\ Returned(t) =>
              /\ result[t][1].num_popped = Len(PoppedIds(t))
              /\ result[t][1].num_popped >= 1
        /\ (Returned(t) /\ ~Found(t)) =>
              /\ work[t] = <<>>
              /\ PushedIds(t) = {PoppedIds(t)[i] : i \in 1..Len(PoppedIds(t))}
              /\ result[t][1].num_popped = 1 + Len(produced[t])

\* a task that returned without a counterexample after popping the initial
\* state and at least three predecessors
C20_Witness ==
    \E t \in Tasks :
        /\ Returned(t)
        /\ ~Found(t)
        /\ Len(produced[t]) >= 3
        /\ result[t][1].num_popped >= 4

====
